---- MODULE Spec2Model ----
(***************************************************************************)
(* tinysetqueue: a fixed-capacity ring queue with direct-mapped membership *)
(* tracking (src/src/lib.rs).                                              *)
(*                                                                         *)
(* The model holds one TinySetQueue (remainder arithmetic) and, when its   *)
(* constructor does not panic, one TinySetQueuePow2 (mask arithmetic) built*)
(* over equal storage.  Every operation is applied to both, so each        *)
(* variant is driven through every sequence of push, pop and clear.        *)
(*                                                                         *)
(* Rust slices are functions over 0..n-1.  A u64 word is the set of its    *)
(* set bit positions, so | is \cup, & is \cap and ! is the complement in   *)
(* 0..63.  Option<T> and the payload of Err are sets of at most one value. *)
(***************************************************************************)
EXTENDS Integers, Sequences, FiniteSets, TLC

\* ------------------------------------------------------------------ bounds

\* Longest ring buffer handed to a constructor (lengths 0..MaxCap).
MaxCap == 3

\* Number of u64 words of the packed membership backing.
Words == 2

\* Longest ring whose index arithmetic is run on its own: 2^MaxLog slots.
MaxLog == 5

\* Width of usize in bits (the smallest pointer width Rust targets have).
UsizeBits == 16

\* Bits per packed word: `<< 6`, `>> 6`, `& 63`.
WordBits == 64

\* Length of the [bool] membership backing: room for MaxCap + 1 indices.
MemLen == MaxCap + 1

\* ----------------------------------------------------------------- slices

ArrLen(a) == Cardinality(DOMAIN a)

Filled(n, x) == [i \in 0..(n - 1) |-> x]

\* ----------------------------------------------------- machine arithmetic

RECURSIVE TwoTo(_)
TwoTo(n) == IF n = 0 THEN 1 ELSE 2 * TwoTo(n - 1)

RECURSIVE BitAnd(_, _)
BitAnd(a, b) ==
  IF a = 0 \/ b = 0 THEN 0
  ELSE (a % 2) * (b % 2) + 2 * BitAnd(a \div 2, b \div 2)

RECURSIVE count_ones(_)
count_ones(n) == IF n = 0 THEN 0 ELSE (n % 2) + count_ones(n \div 2)

is_power_of_two_or_zero(n) == n = 0 \/ BitAnd(n, n - 1) = 0

\* usize::is_power_of_two
is_power_of_two(n) == count_ones(n) = 1

\* wrapping_sub that stops at 0 instead of wrapping.
saturating_sub(a, b) == IF a < b THEN 0 ELSE a - b

\* usize::wrapping_sub
wrapping_sub(a, b) == (a - b + TwoTo(UsizeBits)) % TwoTo(UsizeBits)

\* ------------------------------------------------------------- SetBacking

\* impl SetBacking for [bool]
bool_capacity(s) == ArrLen(s)

bool_contains(s, index) == s[index]

bool_insert(s, index) == [s EXCEPT ![index] = TRUE]

bool_remove(s, index) == [s EXCEPT ![index] = FALSE]

bool_clear_all(s) == [i \in DOMAIN s |-> FALSE]

\* impl SetBacking for [u64]
AllBits == 0..(WordBits - 1)

\* 1u64 << bit
Shl1(bit) == {bit}

u64_capacity(s) == ArrLen(s) * WordBits

u64_contains(s, index) ==
  LET word == index \div WordBits
      bit  == index % WordBits
  IN  (s[word] \cap Shl1(bit)) # {}

u64_insert(s, index) ==
  LET word == index \div WordBits
      bit  == index % WordBits
  IN  [s EXCEPT ![word] = s[word] \cup Shl1(bit)]

u64_remove_no_negation(s, index) ==
  LET word == index \div WordBits
      bit  == index % WordBits
  IN  [s EXCEPT ![word] = s[word] \cap Shl1(bit)]

u64_remove(s, index) ==
  LET word == index \div WordBits
      bit  == index % WordBits
  IN  [s EXCEPT ![word] = s[word] \cap (AllBits \ Shl1(bit))]

u64_clear_all(s) == [i \in DOMAIN s |-> {}]

\* Dispatch on the backing's type: s = [kind, data].
capacity_of(s) ==
  IF s.kind = "bool" THEN bool_capacity(s.data) ELSE u64_capacity(s.data)

contains(s, index) ==
  IF s.kind = "bool" THEN bool_contains(s.data, index)
  ELSE u64_contains(s.data, index)

insert(s, index) ==
  [s EXCEPT !.data = IF s.kind = "bool" THEN bool_insert(s.data, index)
                     ELSE u64_insert(s.data, index)]

remove(s, index) ==
  [s EXCEPT !.data = IF s.kind = "bool" THEN bool_remove(s.data, index)
                     ELSE u64_remove(s.data, index)]

clear_all(s) ==
  [s EXCEPT !.data = IF s.kind = "bool" THEN bool_clear_all(s.data)
                     ELSE u64_clear_all(s.data)]

\* The indices whose membership bit is set.
Members(s) == {i \in 0..(capacity_of(s) - 1) : contains(s, i)}

\* ----------------------------------------------------------------- values

\* T: Copy + Into<usize>; the lossless widening of u8 / u16.
index_of(value) == value

Inserted == [tag |-> "Inserted", val |-> {}]

AlreadyPresent == [tag |-> "AlreadyPresent", val |-> {}]

Err(value) == [tag |-> "Err", val |-> {value}]

Some(value) == [tag |-> "Some", val |-> {value}]

None == [tag |-> "None", val |-> {}]

\* ----------------------------------------------------------- TinySetQueue

\* new() that never calls in_queue.clear_all().
new_never_clears(buf, in_queue, mode, order, clear_on_new) ==
  [buf      |-> buf,
   in_queue |-> in_queue,
   mode     |-> mode,
   order    |-> order,
   head     |-> 0,
   tail     |-> 0,
   len      |-> 0]

new(buf, in_queue, mode, order, clear_on_new) ==
  [buf      |-> buf,
   in_queue |-> IF clear_on_new THEN clear_all(in_queue) ELSE in_queue,
   mode     |-> mode,
   order    |-> order,
   head     |-> 0,
   tail     |-> 0,
   len      |-> 0]

\* clear() that forgets in_queue.clear_all().
clear_keeps_members(q) ==
  [q EXCEPT !.head = 0,
            !.tail = 0,
            !.len = 0]

\* clear() that forgets self.tail = 0.
clear_keeps_tail(q) ==
  [q EXCEPT !.in_queue = clear_all(q.in_queue),
            !.head = 0,
            !.len = 0]

clear(q) ==
  [q EXCEPT !.in_queue = clear_all(q.in_queue),
            !.head = 0,
            !.tail = 0,
            !.len = 0]

capacity(q) == ArrLen(q.buf)

len(q) == q.len

is_empty(q) == q.len = 0

is_full(q) == q.len = ArrLen(q.buf)

\* push that forgets in_queue.insert(idx).
push_no_insert(q, value) ==
  LET idx == index_of(value) IN
  IF idx >= capacity_of(q.in_queue) THEN [res |-> Err(value), q |-> q]
  ELSE IF contains(q.in_queue, idx) THEN [res |-> AlreadyPresent, q |-> q]
  ELSE IF is_full(q) THEN [res |-> Err(value), q |-> q]
  ELSE [res |-> Inserted,
        q   |-> [q EXCEPT !.buf = [q.buf EXCEPT ![q.tail] = value],
                          !.tail = (q.tail + 1) % ArrLen(q.buf),
                          !.len = q.len + 1]]

\* push that forgets self.len += 1.
push_no_len(q, value) ==
  LET idx == index_of(value) IN
  IF idx >= capacity_of(q.in_queue) THEN [res |-> Err(value), q |-> q]
  ELSE IF contains(q.in_queue, idx) THEN [res |-> AlreadyPresent, q |-> q]
  ELSE IF is_full(q) THEN [res |-> Err(value), q |-> q]
  ELSE [res |-> Inserted,
        q   |-> [q EXCEPT !.buf = [q.buf EXCEPT ![q.tail] = value],
                          !.in_queue = insert(q.in_queue, idx),
                          !.tail = (q.tail + 1) % ArrLen(q.buf)]]

\* push that stores the value in the tail slot before any check.
push_store_first(q, value) ==
  LET idx == index_of(value)
      q0  == [q EXCEPT !.buf = [q.buf EXCEPT ![q.tail] = value]]
  IN
  IF idx >= capacity_of(q.in_queue) THEN [res |-> Err(value), q |-> q0]
  ELSE IF contains(q.in_queue, idx) THEN [res |-> AlreadyPresent, q |-> q0]
  ELSE IF is_full(q) THEN [res |-> Err(value), q |-> q0]
  ELSE [res |-> Inserted,
        q   |-> [q0 EXCEPT !.in_queue = insert(q.in_queue, idx),
                           !.tail = (q.tail + 1) % ArrLen(q.buf),
                           !.len = q.len + 1]]

\* push that makes the full check before the membership check.
push_full_first(q, value) ==
  LET idx == index_of(value) IN
  IF idx >= capacity_of(q.in_queue) THEN [res |-> Err(value), q |-> q]
  ELSE IF is_full(q) THEN [res |-> Err(value), q |-> q]
  ELSE IF contains(q.in_queue, idx) THEN [res |-> AlreadyPresent, q |-> q]
  ELSE [res |-> Inserted,
        q   |-> [q EXCEPT !.buf = [q.buf EXCEPT ![q.tail] = value],
                          !.in_queue = insert(q.in_queue, idx),
                          !.tail = (q.tail + 1) % ArrLen(q.buf),
                          !.len = q.len + 1]]

\* push that reports a full queue as Ok(AlreadyPresent).
push_full_as_present(q, value) ==
  LET idx == index_of(value) IN
  IF idx >= capacity_of(q.in_queue) THEN [res |-> Err(value), q |-> q]
  ELSE IF contains(q.in_queue, idx) THEN [res |-> AlreadyPresent, q |-> q]
  ELSE IF is_full(q) THEN [res |-> AlreadyPresent, q |-> q]
  ELSE [res |-> Inserted,
        q   |-> [q EXCEPT !.buf = [q.buf EXCEPT ![q.tail] = value],
                          !.in_queue = insert(q.in_queue, idx),
                          !.tail = (q.tail + 1) % ArrLen(q.buf),
                          !.len = q.len + 1]]

\* push without the contains() check.
push_no_contains(q, value) ==
  LET idx == index_of(value) IN
  IF idx >= capacity_of(q.in_queue) THEN [res |-> Err(value), q |-> q]
  ELSE IF is_full(q) THEN [res |-> Err(value), q |-> q]
  ELSE [res |-> Inserted,
        q   |-> [q EXCEPT !.buf = [q.buf EXCEPT ![q.tail] = value],
                          !.in_queue = insert(q.in_queue, idx),
                          !.tail = (q.tail + 1) % ArrLen(q.buf),
                          !.len = q.len + 1]]

\* push without the wrap of tail.
push_no_wrap(q, value) ==
  LET idx == index_of(value) IN
  IF idx >= capacity_of(q.in_queue) THEN [res |-> Err(value), q |-> q]
  ELSE IF contains(q.in_queue, idx) THEN [res |-> AlreadyPresent, q |-> q]
  ELSE IF is_full(q) THEN [res |-> Err(value), q |-> q]
  ELSE [res |-> Inserted,
        q   |-> [q EXCEPT !.buf = [q.buf EXCEPT ![q.tail] = value],
                          !.in_queue = insert(q.in_queue, idx),
                          !.tail = q.tail + 1,
                          !.len = q.len + 1]]

\* push returns the result and the queue it leaves behind.
push(q, value) ==
  LET idx == index_of(value) IN
  IF idx >= capacity_of(q.in_queue) THEN [res |-> Err(value), q |-> q]
  ELSE IF contains(q.in_queue, idx) THEN [res |-> AlreadyPresent, q |-> q]
  ELSE IF is_full(q) THEN [res |-> Err(value), q |-> q]
  ELSE [res |-> Inserted,
        q   |-> [q EXCEPT !.buf = [q.buf EXCEPT ![q.tail] = value],
                          !.in_queue = insert(q.in_queue, idx),
                          !.tail = (q.tail + 1) % ArrLen(q.buf),
                          !.len = q.len + 1]]

\* pop with the Fifo and Lifo arms swapped.
pop_orders_swapped(q) ==
  IF is_empty(q) THEN [res |-> None, q |-> q]
  ELSE
    LET index == IF q.order = "Lifo" THEN q.head
                 ELSE IF q.tail = 0 THEN ArrLen(q.buf) - 1 ELSE q.tail - 1
        q1    == IF q.order = "Lifo"
                 THEN [q EXCEPT !.head = (q.head + 1) % ArrLen(q.buf)]
                 ELSE [q EXCEPT !.tail = index]
        value == q1.buf[index]
        idx   == index_of(value)
        q2    == IF q1.mode = "InQueue"
                 THEN [q1 EXCEPT !.in_queue = remove(q1.in_queue, idx)]
                 ELSE q1
    IN  [res |-> Some(value), q |-> [q2 EXCEPT !.len = q2.len - 1]]

\* pop that reads the slot at tail, before the Lifo decrement, not after it.
pop_lifo_reads_tail(q) ==
  IF is_empty(q) THEN [res |-> None, q |-> q]
  ELSE
    LET index == IF q.order = "Fifo" THEN q.head
                 ELSE IF q.tail = 0 THEN ArrLen(q.buf) - 1 ELSE q.tail - 1
        q1    == IF q.order = "Fifo"
                 THEN [q EXCEPT !.head = (q.head + 1) % ArrLen(q.buf)]
                 ELSE [q EXCEPT !.tail = index]
        value == q1.buf[IF q.order = "Fifo" THEN index ELSE q.tail]
        idx   == index_of(value)
        q2    == IF q1.mode = "InQueue"
                 THEN [q1 EXCEPT !.in_queue = remove(q1.in_queue, idx)]
                 ELSE q1
    IN  [res |-> Some(value), q |-> [q2 EXCEPT !.len = q2.len - 1]]

\* pop that never clears the membership bit.
pop_keeps_member(q) ==
  IF is_empty(q) THEN [res |-> None, q |-> q]
  ELSE
    LET index == IF q.order = "Fifo" THEN q.head
                 ELSE IF q.tail = 0 THEN ArrLen(q.buf) - 1 ELSE q.tail - 1
        q1    == IF q.order = "Fifo"
                 THEN [q EXCEPT !.head = (q.head + 1) % ArrLen(q.buf)]
                 ELSE [q EXCEPT !.tail = index]
        value == q1.buf[index]
        idx   == index_of(value)
        q2    == q1
    IN  [res |-> Some(value), q |-> [q2 EXCEPT !.len = q2.len - 1]]

\* pop that clears the membership bit in Visited mode too.
pop_always_removes(q) ==
  IF is_empty(q) THEN [res |-> None, q |-> q]
  ELSE
    LET index == IF q.order = "Fifo" THEN q.head
                 ELSE IF q.tail = 0 THEN ArrLen(q.buf) - 1 ELSE q.tail - 1
        q1    == IF q.order = "Fifo"
                 THEN [q EXCEPT !.head = (q.head + 1) % ArrLen(q.buf)]
                 ELSE [q EXCEPT !.tail = index]
        value == q1.buf[index]
        idx   == index_of(value)
        q2    == [q1 EXCEPT !.in_queue = remove(q1.in_queue, idx)]
    IN  [res |-> Some(value), q |-> [q2 EXCEPT !.len = q2.len - 1]]

\* pop() that forgets self.len -= 1.
pop_no_len(q) ==
  IF is_empty(q) THEN [res |-> None, q |-> q]
  ELSE
    LET index == IF q.order = "Fifo" THEN q.head
                 ELSE IF q.tail = 0 THEN ArrLen(q.buf) - 1 ELSE q.tail - 1
        q1    == IF q.order = "Fifo"
                 THEN [q EXCEPT !.head = (q.head + 1) % ArrLen(q.buf)]
                 ELSE [q EXCEPT !.tail = index]
        value == q1.buf[index]
        idx   == index_of(value)
        q2    == IF q1.mode = "InQueue"
                 THEN [q1 EXCEPT !.in_queue = remove(q1.in_queue, idx)]
                 ELSE q1
    IN  [res |-> Some(value), q |-> q2]

pop(q) ==
  IF is_empty(q) THEN [res |-> None, q |-> q]
  ELSE
    LET index == IF q.order = "Fifo" THEN q.head
                 ELSE IF q.tail = 0 THEN ArrLen(q.buf) - 1 ELSE q.tail - 1
        q1    == IF q.order = "Fifo"
                 THEN [q EXCEPT !.head = (q.head + 1) % ArrLen(q.buf)]
                 ELSE [q EXCEPT !.tail = index]
        value == q1.buf[index]
        idx   == index_of(value)
        q2    == IF q1.mode = "InQueue"
                 THEN [q1 EXCEPT !.in_queue = remove(q1.in_queue, idx)]
                 ELSE q1
    IN  [res |-> Some(value), q |-> [q2 EXCEPT !.len = q2.len - 1]]

\* ------------------------------------------------------- TinySetQueuePow2

\* The constructor panics on a length that is no power of two: no queue.
p2_new(buf, in_queue, mode, order, clear_on_new) ==
  IF ~is_power_of_two(ArrLen(buf)) THEN {}
  ELSE {[buf      |-> buf,
         in_queue |-> IF clear_on_new THEN clear_all(in_queue) ELSE in_queue,
         mode     |-> mode,
         order    |-> order,
         mask     |-> ArrLen(buf) - 1,
         head     |-> 0,
         tail     |-> 0,
         len      |-> 0]}

p2_clear(q) ==
  [q EXCEPT !.in_queue = clear_all(q.in_queue),
            !.head = 0,
            !.tail = 0,
            !.len = 0]

p2_push_no_advance(q, value) ==
  LET idx == index_of(value) IN
  IF idx >= capacity_of(q.in_queue) THEN [res |-> Err(value), q |-> q]
  ELSE IF contains(q.in_queue, idx) THEN [res |-> AlreadyPresent, q |-> q]
  ELSE IF is_full(q) THEN [res |-> Err(value), q |-> q]
  ELSE [res |-> Inserted,
        q   |-> [q EXCEPT !.buf = [q.buf EXCEPT ![q.tail] = value],
                          !.in_queue = insert(q.in_queue, idx),
                          !.tail = BitAnd(q.tail, q.mask),
                          !.len = q.len + 1]]

p2_push(q, value) ==
  LET idx == index_of(value) IN
  IF idx >= capacity_of(q.in_queue) THEN [res |-> Err(value), q |-> q]
  ELSE IF contains(q.in_queue, idx) THEN [res |-> AlreadyPresent, q |-> q]
  ELSE IF is_full(q) THEN [res |-> Err(value), q |-> q]
  ELSE [res |-> Inserted,
        q   |-> [q EXCEPT !.buf = [q.buf EXCEPT ![q.tail] = value],
                          !.in_queue = insert(q.in_queue, idx),
                          !.tail = BitAnd(q.tail + 1, q.mask),
                          !.len = q.len + 1]]

p2_pop(q) ==
  IF is_empty(q) THEN [res |-> None, q |-> q]
  ELSE
    LET index == IF q.order = "Fifo" THEN q.head
                 ELSE BitAnd(wrapping_sub(q.tail, 1), q.mask)
        q1    == IF q.order = "Fifo"
                 THEN [q EXCEPT !.head = BitAnd(q.head + 1, q.mask)]
                 ELSE [q EXCEPT !.tail = index]
        value == q1.buf[index]
        idx   == index_of(value)
        q2    == IF q1.mode = "InQueue"
                 THEN [q1 EXCEPT !.in_queue = remove(q1.in_queue, idx)]
                 ELSE q1
    IN  [res |-> Some(value), q |-> [q2 EXCEPT !.len = q2.len - 1]]

\* ----------------------------------------------------------------- faults

\* The slice index that contains, insert and remove compute is outside the
\* backing's storage: index for [bool], index >> 6 for [u64].
backing_faults(s, index) ==
  (IF s.kind = "bool" THEN index ELSE index \div WordBits) >= ArrLen(s.data)

\* The call would panic: a slice index outside its slice, a remainder by
\* zero, or len decremented at 0, in the order in which the code gets there.
push_faults(q, value) ==
  LET idx == index_of(value) IN
  IF idx >= capacity_of(q.in_queue) THEN FALSE
  ELSE IF backing_faults(q.in_queue, idx) THEN TRUE
  ELSE IF contains(q.in_queue, idx) THEN FALSE
  ELSE IF is_full(q) THEN FALSE
  ELSE \/ q.tail >= ArrLen(q.buf)
       \/ ArrLen(q.buf) = 0

pop_faults(q) ==
  IF is_empty(q) THEN FALSE
  ELSE IF ArrLen(q.buf) = 0 THEN TRUE
  ELSE
    LET index == IF q.order = "Fifo" THEN q.head
                 ELSE IF q.tail = 0 THEN ArrLen(q.buf) - 1 ELSE q.tail - 1
    IN  IF index < 0 \/ index >= ArrLen(q.buf) THEN TRUE
        ELSE \/ /\ q.mode = "InQueue"
                /\ backing_faults(q.in_queue, index_of(q.buf[index]))
             \/ q.len < 1

p2_push_faults(q, value) ==
  LET idx == index_of(value) IN
  IF idx >= capacity_of(q.in_queue) THEN FALSE
  ELSE IF backing_faults(q.in_queue, idx) THEN TRUE
  ELSE IF contains(q.in_queue, idx) THEN FALSE
  ELSE IF is_full(q) THEN FALSE
  ELSE q.tail >= ArrLen(q.buf)

p2_pop_faults(q) ==
  IF is_empty(q) THEN FALSE
  ELSE
    LET index == IF q.order = "Fifo" THEN q.head
                 ELSE BitAnd(wrapping_sub(q.tail, 1), q.mask)
    IN  IF index >= ArrLen(q.buf) THEN TRUE
        ELSE \/ /\ q.mode = "InQueue"
                /\ backing_faults(q.in_queue, index_of(q.buf[index]))
             \/ q.len < 1

\* ------------------------------------------------------------------ state

VARIABLES
  queue,        \* the TinySetQueue
  pow2,         \* the TinySetQueuePow2: {} when its constructor panicked
  last,         \* the latest call: [op, arg, clear_on_new]
  obs,          \* what the caller of the TinySetQueue has observed
  obs2,         \* what the caller of the TinySetQueuePow2 has observed, or {}
  membership,   \* a [u64] and a [bool] backing used on their own, side by side
  ring          \* a ring index stepped by the mask and by the modulo arithmetic

vars == <<queue, pow2, last, obs, obs2, membership, ring>>

P2 == CHOOSE q \in pow2 : TRUE

O2 == CHOOSE o \in obs2 : TRUE

\* ----------------------------------------------------------------- inputs

Kinds == {"bool", "u64"}

Modes == {"InQueue", "Visited"}

Orders == {"Fifo", "Lifo"}

\* Values a caller pushes: the last one of each set is out of range.
Values(kind) ==
  IF kind = "bool" THEN 0..MemLen
  ELSE (0..(MaxCap - 3)) \cup
       {WordBits - 1, WordBits, Words * WordBits - 1, Words * WordBits}

\* Indices whose bit may be left set in the backing a caller supplies.
StaleIdx(kind) == IF kind = "bool" THEN {0, 1} ELSE {0, WordBits - 1}

\* A membership backing with exactly the bits of S set.
Backing(kind, S) ==
  IF kind = "bool"
  THEN [kind |-> kind, data |-> [i \in 0..(MemLen - 1) |-> i \in S]]
  ELSE [kind |-> kind,
        data |-> [w \in 0..(Words - 1) |->
                    {b \in AllBits : w * WordBits + b \in S}]]

\* ------------------------------------------------------------ observation

\* What the caller of one queue can tell from the calls and their results:
\*   res      what the latest call returned;
\*   len0     len() before the latest call;
\*   same     the latest call left every field of the queue, its buffer and
\*            its membership backing as they were;
\*   member0  the latest call was a push of an in-range value whose
\*            membership bit was set when it was called;
\*   due      before a pop(), what the caller's record of pending values
\*            says it returns: the oldest in Fifo order, the newest in
\*            Lifo order, None when nothing is pending;
\*   after    how the latest call follows the one before it:
\*              "repush"   push(v) right after push(v) returned Inserted,
\*              "repop"    push(v) right after pop() returned v,
\*              "revisit"  push(v) right after a clear() before which pop()
\*                         had returned v (Visited mode),
\*              "cleared"  any other call right after clear(),
\*              "wiped"    push(v) right after a constructor that was given
\*                         a backing with v's bit set and cleared it,
\*              "kept"     push(v) right after a constructor that was given
\*                         a backing with v's bit set and did not clear it,
\*              "first"    any other call right after a constructor that
\*                         cleared the backing,
\*              "retry"    push(v) right after a pop() that followed a
\*                         push(v) rejected for want of room,
\*              "other"    anything else;
\*   pending  the values whose push returned Inserted and that no pop has
\*            returned yet, oldest first, taken off by the queue's order;
\*   drained  after a pop(), the value whose push right before it returned
\*            Err although it was in range and no member, the queue being
\*            full; empty otherwise;
\*   popped   in Visited mode, the values pop has returned since
\*            construction or the last clear();
\*   inserted in Visited mode, the values whose push has returned Inserted
\*            since construction or the last clear();
\*   ninserted, npopped
\*            in Visited mode, how many pushes have returned Inserted and
\*            how many pops a value since construction or the last clear();
\*   clean    no membership bit was set right after construction, or
\*            clear() has been called since;
\*   popped0  popped as it was before the latest call, a clear();
\*   fresh    the pushes made since construction or the last clear(), as
\*            long as they were pairwise distinct, in range, at most
\*            capacity() + 1 and nothing else was called; clean tells that
\*            no membership bit was set when they began.
Broken == [ok |-> FALSE, vals |-> <<>>, clean |-> FALSE]

Front(s) == SubSeq(s, 1, Len(s) - 1)

InSeq(x, s) == \E i \in 1..Len(s) : s[i] = x

ObsInit(q) ==
  [res     |-> None,
   len0    |-> 0,
   same    |-> TRUE,
   member0 |-> FALSE,
   due     |-> None,
   after   |-> "other",
   drained |-> {},
   pending |-> <<>>,
   popped  |-> {},
   inserted  |-> {},
   ninserted |-> 0,
   npopped   |-> 0,
   clean   |-> Members(q.in_queue) = {},
   popped0 |-> {},
   fresh   |-> [ok |-> TRUE, vals |-> <<>>, clean |-> Members(q.in_queue) = {}]]

Follows(o, op, arg) ==
  IF last.op = "clear" THEN
    (IF op = "push" /\ arg \subseteq o.popped0 THEN "revisit" ELSE "cleared")
  ELSE IF last.op = "new" THEN
    (IF op = "push" /\ arg \subseteq last.arg
     THEN (IF last.clear_on_new THEN "wiped" ELSE "kept")
     ELSE (IF last.clear_on_new THEN "first" ELSE "other"))
  ELSE IF op = "push" /\ last.op = "push" /\ last.arg = arg
          /\ o.res.tag = "Inserted" THEN "repush"
  ELSE IF op = "push" /\ last.op = "pop" /\ o.res = [tag |-> "Some", val |-> arg]
       THEN "repop"
  ELSE IF op = "push" /\ last.op = "pop" /\ arg \subseteq o.drained
       THEN "retry"
  ELSE "other"

\* q is the queue before the pop(), which a rejected push has left as it was.
DrainedBy(o, q, op) ==
  IF /\ op = "pop" /\ last.op = "push" /\ o.res.tag = "Err"
     /\ \A v \in last.arg : /\ index_of(v) < capacity_of(q.in_queue)
                            /\ ~contains(q.in_queue, index_of(v))
     /\ is_full(q)
  THEN last.arg ELSE {}

DueBefore(o, q, op) ==
  IF op # "pop" \/ o.pending = <<>> THEN None
  ELSE IF q.order = "Fifo" THEN Some(o.pending[1])
  ELSE Some(o.pending[Len(o.pending)])

PendingAfter(o, q, op, arg, res) ==
  IF op = "clear" THEN <<>>
  ELSE IF op = "pop" THEN
    (IF res.tag = "Some" /\ o.pending # <<>>
     THEN (IF q.order = "Fifo" THEN Tail(o.pending) ELSE Front(o.pending))
     ELSE o.pending)
  ELSE IF res.tag = "Inserted"
       THEN Append(o.pending, CHOOSE x \in arg : TRUE)
       ELSE o.pending

PoppedAfter(o, q, op, res) ==
  IF op = "clear" THEN {}
  ELSE IF op = "pop" /\ q.mode = "Visited" THEN o.popped \cup res.val
  ELSE o.popped

InsertedAfter(o, q, op, arg, res) ==
  IF op = "clear" THEN {}
  ELSE IF q.mode = "Visited" /\ res.tag = "Inserted" THEN o.inserted \cup arg
  ELSE o.inserted

\* The number of calls of op answered with tag since the last clear(), n
\* being the number before this call.
CountAfter(n, q, op, res, counted, tag) ==
  IF op = "clear" THEN 0
  ELSE IF q.mode = "Visited" /\ op = counted /\ res.tag = tag THEN n + 1
  ELSE n

FreshAfter(o, q, op, arg) ==
  IF op = "clear" THEN [ok |-> TRUE, vals |-> <<>>, clean |-> TRUE]
  ELSE IF op = "pop" THEN Broken
  ELSE
    LET v == CHOOSE x \in arg : TRUE IN
    IF /\ o.fresh.ok
       /\ index_of(v) < capacity_of(q.in_queue)
       /\ ~InSeq(v, o.fresh.vals)
       /\ Len(o.fresh.vals) <= capacity(q)
    THEN [o.fresh EXCEPT !.vals = Append(o.fresh.vals, v)]
    ELSE Broken

\* o and q are the observations and the queue before the call, res its
\* result and q1 the queue after it.
Observe(o, q, op, arg, res, q1) ==
  LET after == Follows(o, op, arg) IN
  [res     |-> res,
   len0    |-> q.len,
   same    |-> q1 = q,
   member0 |-> /\ op = "push"
               /\ \E v \in arg : /\ index_of(v) < capacity_of(q.in_queue)
                                 /\ contains(q.in_queue, index_of(v)),
   due     |-> DueBefore(o, q, op),
   after   |-> after,
   drained |-> DrainedBy(o, q, op),
   pending |-> PendingAfter(o, q, op, arg, res),
   popped  |-> PoppedAfter(o, q, op, res),
   inserted  |-> InsertedAfter(o, q, op, arg, res),
   ninserted |-> CountAfter(o.ninserted, q, op, res, "push", "Inserted"),
   npopped   |-> CountAfter(o.npopped, q, op, res, "pop", "Some"),
   clean   |-> op = "clear" \/ o.clean,
   popped0 |-> IF op = "clear" THEN o.popped ELSE {},
   fresh   |-> FreshAfter(o, q, op, arg)]

\* -------------------------------------------------------------- behaviour

\* The queues own their backing and their indices; nothing is used on its
\* own beside them.
Unused == [op |-> "unused"]

\* A call: the operation, its argument (the value pushed; for the
\* constructor the indices whose bit is set in the backing it is given) and,
\* for the constructor, whether the crate was built with the clear_on_new
\* feature.
Call(op, arg, con) == [op |-> op, arg |-> arg, clear_on_new |-> con]

Init ==
  \E n \in 0..MaxCap, kind \in Kinds, mode \in Modes, order \in Orders,
     con \in BOOLEAN :
    \E S \in SUBSET StaleIdx(kind) :
      /\ queue = new(Filled(n, 0), Backing(kind, S), mode, order, con)
      /\ pow2 = p2_new(Filled(n, 0), Backing(kind, S), mode, order, con)
      /\ last = Call("new", S, con)
      /\ obs = ObsInit(queue)
      /\ obs2 = {ObsInit(q) : q \in pow2}
      /\ membership = Unused
      /\ ring = Unused

\* Apply one call to both queues: r and r2 are what the two operations give.
Step(op, arg, r, r2) ==
  /\ queue' = r.q
  /\ pow2' = {x.q : x \in r2}
  /\ last' = Call(op, arg, FALSE)
  /\ obs' = Observe(obs, queue, op, arg, r.res, r.q)
  /\ obs2' = {Observe(O2, P2, op, arg, x.res, x.q) : x \in r2}
  /\ UNCHANGED <<membership, ring>>

Push(v) ==
  Step("push", {v}, push(queue, v), {p2_push(q, v) : q \in pow2})

Pop ==
  Step("pop", {}, pop(queue), {p2_pop(q) : q \in pow2})

Clear ==
  Step("clear", {}, [res |-> None, q |-> clear(queue)],
       {[res |-> None, q |-> p2_clear(q)] : q \in pow2})

Next ==
  \/ \E v \in Values(queue.in_queue.kind) : Push(v)
  \/ Pop
  \/ Clear

Spec == Init /\ [][Next]_vars

\* ------------------------------------------- the backings on their own

\* Indices on both sides of every word boundary, and the ends.
ProbeIdx ==
  {0, 1, WordBits - 2, WordBits - 1, WordBits, WordBits + 1,
   Words * WordBits - 1}

\* The same call on the packed and on the byte-per-bit backing: packed0 is
\* the packed backing before the call.
Applied(op, index, packed, bytes) ==
  [op |-> op, index |-> index, packed0 |-> membership.packed,
   packed |-> packed, bytes |-> bytes]

\* Two backings of Words * WordBits indices with the same prior contents,
\* and a queue that is never used.
BackingInit ==
  /\ queue = new(Filled(0, 0), Backing("bool", {}), "InQueue", "Fifo", TRUE)
  /\ pow2 = {}
  /\ last = Call("new", {}, TRUE)
  /\ obs = ObsInit(queue)
  /\ obs2 = {}
  /\ ring = Unused
  /\ \E S \in SUBSET ProbeIdx :
       membership =
         [op |-> "given", index |-> 0,
          packed0 |-> Backing("u64", S).data,
          packed |-> Backing("u64", S).data,
          bytes |-> [i \in 0..(Words * WordBits - 1) |-> i \in S]]

Insert(index) ==
  /\ membership' = Applied("insert", index,
                           u64_insert(membership.packed, index),
                           bool_insert(membership.bytes, index))
  /\ UNCHANGED <<queue, pow2, last, obs, obs2, ring>>

Remove(index) ==
  /\ membership' = Applied("remove", index,
                           u64_remove(membership.packed, index),
                           bool_remove(membership.bytes, index))
  /\ UNCHANGED <<queue, pow2, last, obs, obs2, ring>>

ClearAll ==
  /\ membership' = Applied("clear_all", 0,
                           u64_clear_all(membership.packed),
                           bool_clear_all(membership.bytes))
  /\ UNCHANGED <<queue, pow2, last, obs, obs2, ring>>

BackingNext ==
  \/ \E index \in ProbeIdx : Insert(index)
  \/ \E index \in ProbeIdx : Remove(index)
  \/ ClearAll

BackingSpec == BackingInit /\ [][BackingNext]_vars

\* ------------------------------------------- the index arithmetic alone

\* One step of an index of a ring of length slots, computed as
\* TinySetQueuePow2 does (by_mask) and as TinySetQueue does (by_mod).
Stepped(op, by_mask, by_mod) ==
  [op |-> op, length |-> ring.length, mask |-> ring.mask,
   index0 |-> ring.index, index |-> by_mask, by_mod |-> by_mod]

\* Every power-of-two length up to 2^MaxLog, its mask as the constructor
\* computes it, every index below the length; the queues are never used.
ArithInit ==
  /\ queue = new(Filled(0, 0), Backing("bool", {}), "InQueue", "Fifo", TRUE)
  /\ pow2 = {}
  /\ last = Call("new", {}, TRUE)
  /\ obs = ObsInit(queue)
  /\ obs2 = {}
  /\ membership = Unused
  /\ \E k \in 0..MaxLog :
       \E i \in 0..(TwoTo(k) - 1) :
         ring = [op |-> "given", length |-> TwoTo(k), mask |-> TwoTo(k) - 1,
                 index0 |-> i, index |-> i, by_mod |-> i]

\* self.tail = (self.tail + 1) & self.mask  against  (self.tail + 1) % len
Advance ==
  /\ ring' = Stepped("advance",
                     BitAnd(ring.index + 1, ring.mask),
                     (ring.index + 1) % ring.length)
  /\ UNCHANGED <<queue, pow2, last, obs, obs2, membership>>

\* self.tail.wrapping_sub(1) & self.mask  against the Lifo arm of pop
Retreat ==
  /\ ring' = Stepped("retreat",
                     BitAnd(wrapping_sub(ring.index, 1), ring.mask),
                     IF ring.index = 0 THEN ring.length - 1
                     ELSE ring.index - 1)
  /\ UNCHANGED <<queue, pow2, last, obs, obs2, membership>>

ArithNext == Advance \/ Retreat

ArithSpec == ArithInit /\ [][ArithNext]_vars

\* -------------------------------------------------------- a work-list loop

\* A caller that uses a Visited queue, constructed with no membership bit
\* set, as a work list: it seeds the queue, then pops until pop() returns
\* None, pushing some values after each pop; it never calls clear().
Exited == last.op = "pop" /\ obs.res = None

WorkInit == Init /\ queue.mode = "Visited" /\ obs.clean

WorkPush(v) == ~Exited /\ Push(v)

WorkPop == ~Exited /\ Pop

WorkNext ==
  \/ \E v \in Values(queue.in_queue.kind) : WorkPush(v)
  \/ WorkPop

\* The loop makes finitely many pushes per pop: it always gets to its next
\* pop.
WorkSpec == WorkInit /\ [][WorkNext]_vars /\ WF_vars(WorkPop)

\* ----------------------------------------------------------------- claims

\* The bound of the membership backing, counted from its storage: one index
\* per bool, WordBits indices per u64 word.
InRange(q, v) ==
  index_of(v) < (IF q.in_queue.kind = "bool" THEN ArrLen(q.in_queue.data)
                 ELSE ArrLen(q.in_queue.data) * WordBits)

\* No bit of the backing's storage is set.
NoBitSet(s) ==
  \A i \in DOMAIN s.data : s.data[i] = (IF s.kind = "bool" THEN FALSE ELSE {})

Full(q) == len(q) = capacity(q)

C1For(q, o) ==
  o.after = "repush" =>
    /\ o.res = AlreadyPresent
    /\ o.same
    /\ len(q) = o.len0

\* C1: in either queue variant, push(v) right after a push(v) that returned
\* Inserted returns AlreadyPresent and changes nothing; the first push grew
\* len() by 1, so len() has grown by exactly 1 across the two calls.
C1_Dedup ==
  /\ C1For(queue, obs)
  /\ pow2 # {} => C1For(P2, O2)
  /\ (last.op = "push" /\ obs.res = Inserted) => len(queue) = obs.len0 + 1
  /\ (last.op = "push" /\ pow2 # {} /\ O2.res = Inserted)
       => len(P2) = O2.len0 + 1

C1_Witness ==
  /\ last.op = "push" /\ obs.after = "repush" /\ obs.res = AlreadyPresent
  /\ pow2 # {} /\ O2.after = "repush" /\ O2.res = AlreadyPresent

C2For(q, o) ==
  (last.op = "pop" /\ q.order = "Fifo") => o.res = o.due

\* C2: in Fifo order every pop returns the oldest value whose push returned
\* Inserted and that no pop has returned yet (None when there is none), for
\* every interleaving of push, pop and clear, wrapped buffers included.
C2_FifoOrder ==
  /\ C2For(queue, obs)
  /\ pow2 # {} => C2For(P2, O2)

\* A pop after which tail has wrapped around the end and head has not.
C2_Witness ==
  /\ last.op = "pop" /\ queue.order = "Fifo" /\ obs.res.tag = "Some"
  /\ queue.tail < queue.head /\ Len(obs.pending) >= 1
  /\ pow2 # {} /\ O2.res.tag = "Some" /\ P2.tail < P2.head

C3For(q, o) ==
  (last.op = "pop" /\ q.order = "Lifo") => o.res = o.due

\* C3: in Lifo order every pop returns the most recently inserted value
\* that is still pending (None when there is none), also when the queue
\* was full, so that tail had wrapped to 0.
C3_LifoOrder ==
  /\ C3For(queue, obs)
  /\ pow2 # {} => C3For(P2, O2)

\* A pop from a full queue (tail wrapped to 0) that leaves values pending.
C3_Witness ==
  /\ last.op = "pop" /\ queue.order = "Lifo" /\ obs.res.tag = "Some"
  /\ obs.len0 = capacity(queue) /\ Len(obs.pending) >= 1
  /\ pow2 # {} /\ O2.res.tag = "Some" /\ O2.len0 = capacity(P2)

C4For(q, o) ==
  (q.mode = "InQueue" /\ o.after = "repop") => o.res = Inserted

\* C4: in InQueue mode, push(v) right after pop() returned v returns
\* Inserted, in Fifo and in Lifo order.
C4_InQueueRequeue ==
  /\ C4For(queue, obs)
  /\ pow2 # {} => C4For(P2, O2)

C4_Witness ==
  /\ queue.mode = "InQueue" /\ obs.after = "repop" /\ obs.res = Inserted
  /\ pow2 # {} /\ O2.after = "repop" /\ O2.res = Inserted

C5For(q, o) ==
  q.mode = "Visited" =>
    /\ (last.op = "push" /\ last.arg \subseteq o.popped)
         => o.res = AlreadyPresent
    /\ o.after = "revisit" => o.res = Inserted

\* C5: in Visited mode, once pop() has returned v every push(v) returns
\* AlreadyPresent, full queue or not, until clear() is called; push(v)
\* right after that clear() returns Inserted.
C5_VisitedStays ==
  /\ C5For(queue, obs)
  /\ pow2 # {} => C5For(P2, O2)

\* push(v) on a full queue after pop() returned v.
C5_Witness ==
  /\ queue.mode = "Visited" /\ last.op = "push"
  /\ last.arg \subseteq obs.popped /\ is_full(queue)
  /\ obs.res = AlreadyPresent
  /\ pow2 # {} /\ last.arg \subseteq O2.popped /\ O2.res = AlreadyPresent

\* The n-th of a run of pairwise distinct in-range pushes on a queue that
\* was just constructed or cleared: Inserted up to capacity(), then Err.
C6Run(q, o) ==
  LET n == Len(o.fresh.vals) IN
  /\ n <= capacity(q) => (o.res = Inserted /\ len(q) = n)
  /\ n > capacity(q) => (o.res = Err(o.fresh.vals[n]) /\ len(q) = capacity(q))

C6Orig(q, o) == (o.fresh.ok /\ o.fresh.vals # <<>>) => C6Run(q, o)

\* C6 as stated: from any newly constructed or cleared queue.
C6_Original ==
  /\ C6Orig(queue, obs)
  /\ pow2 # {} => C6Orig(P2, O2)

C6For(q, o) ==
  (o.fresh.ok /\ o.fresh.clean /\ o.fresh.vals # <<>>) => C6Run(q, o)

\* C6: starting from a queue with no membership bit set (cleared by
\* clear(), or newly constructed with the backing cleared or supplied
\* clear), capacity() + 1 pairwise distinct in-range pushes return Inserted
\* capacity() times and then Err with the rejected value; len() == capacity().
C6_CapacityLimit ==
  /\ C6For(queue, obs)
  /\ pow2 # {} => C6For(P2, O2)

C6_Witness ==
  /\ obs.fresh.ok /\ obs.fresh.clean
  /\ Len(obs.fresh.vals) = capacity(queue) + 1 /\ capacity(queue) >= 2
  /\ obs.res.tag = "Err"
  /\ pow2 # {} /\ O2.fresh.ok /\ O2.res.tag = "Err"

C7For(q, o) ==
  (last.op = "push" /\ \E v \in last.arg : ~InRange(q, v)) =>
    /\ \A v \in last.arg : o.res = Err(v)
    /\ o.same

\* C7: push(v) with index_of(v) >= the backing's capacity (its length for
\* [bool], word count * 64 for [u64]) returns Err(v) and leaves head, tail,
\* len, the buffer and every membership bit as they were, full queue or not.
C7_OutOfRange ==
  /\ C7For(queue, obs)
  /\ pow2 # {} => C7For(P2, O2)

\* An out-of-range push on a full queue of the packed backing.
C7_Witness ==
  /\ last.op = "push" /\ \A v \in last.arg : ~InRange(queue, v)
  /\ obs.res.tag = "Err" /\ Full(queue) /\ capacity(queue) > 0
  /\ queue.in_queue.kind = "u64"
  /\ pow2 # {} /\ O2.res.tag = "Err"

C8For(q, o) ==
  /\ (last.op = "push" /\ o.member0) => (o.res = AlreadyPresent /\ o.same)
  /\ (last.op = "push" /\ o.res = AlreadyPresent) => (o.member0 /\ o.same)

\* C8: push(v) with the membership bit of v set returns AlreadyPresent and
\* changes nothing, also when the queue is full: the membership check comes
\* before the full check.
C8_AlreadyPresentNoOp ==
  /\ C8For(queue, obs)
  /\ pow2 # {} => C8For(P2, O2)

C8_Witness ==
  /\ last.op = "push" /\ obs.member0 /\ obs.res = AlreadyPresent /\ obs.same
  /\ Full(queue) /\ capacity(queue) > 0
  /\ pow2 # {} /\ O2.res = AlreadyPresent

C9For(q, o) ==
  /\ last.op = "clear" =>
       /\ len(q) = 0
       /\ is_empty(q)
       /\ q.head = 0
       /\ q.tail = 0
       /\ NoBitSet(q.in_queue)
       /\ o.after = "cleared" => o.same
  /\ (last.op = "push" /\ o.after \in {"cleared", "revisit"}
        /\ capacity(q) > 0 /\ \A v \in last.arg : InRange(q, v))
       => o.res = Inserted

\* C9: clear() sets len() to 0, head and tail to 0 and every membership bit
\* to false, in every mode and order; a second clear() right after changes
\* nothing; an in-range push right after clear() returns Inserted.
C9_Clear ==
  /\ C9For(queue, obs)
  /\ pow2 # {} => C9For(P2, O2)

\* clear() of a queue that held values and had values popped in Visited mode.
C9_Witness ==
  /\ last.op = "clear" /\ obs.len0 > 0 /\ obs.popped0 # {}
  /\ pow2 # {} /\ O2.len0 > 0

C10Base ==
  /\ is_full(queue)
  /\ is_empty(queue)
  /\ last.op = "pop" => obs.res = None

\* C10 as stated: every push on a zero-capacity queue fails with its value.
C10_Original ==
  capacity(queue) = 0 =>
    /\ C10Base
    /\ last.op = "push" => \A v \in last.arg : obs.res = Err(v)

\* C10: a TinySetQueue over a zero-length buffer is always full and empty,
\* every pop returns None, and every push(v) returns Err(v), except that a
\* push of an in-range value whose membership bit the caller left set (no
\* clearing at construction, no clear() since) returns AlreadyPresent.
C10_ZeroCapacity ==
  capacity(queue) = 0 =>
    /\ C10Base
    /\ last.op = "push" =>
         \A v \in last.arg :
           obs.res = IF InRange(queue, v) /\ contains(queue.in_queue, index_of(v))
                     THEN AlreadyPresent ELSE Err(v)

C10_Witness ==
  /\ capacity(queue) = 0 /\ last.op = "push" /\ obs.res.tag = "Err"
  /\ \A v \in last.arg : InRange(queue, v)

\* C11: whenever the power-of-two queue exists, it and the modulo queue,
\* driven by the same calls, have returned the same result for the latest
\* call and agree on len(), is_empty() and is_full().
C11_VariantEquivalence ==
  pow2 # {} =>
    /\ O2.res = obs.res
    /\ len(P2) = len(queue)
    /\ is_empty(P2) = is_empty(queue)
    /\ is_full(P2) = is_full(queue)

\* A Lifo pop from a full two-slot queue: the tail index is 0 before it, so
\* the mask form goes through wrapping_sub and the modulo form through the
\* tail == 0 branch.
C11_Witness ==
  /\ pow2 # {} /\ capacity(P2) = 2 /\ P2.order = "Lifo"
  /\ last.op = "pop" /\ O2.len0 = 2 /\ O2.res.tag = "Some"
  /\ obs.res = O2.res /\ P2.tail = 1 /\ queue.tail = 1

\* C12: the power-of-two queue exists exactly when the buffer length is
\* 2^k for some k (so not for length 0, and for length 1); this is decided
\* by the constructor and holds unchanged after every later push, pop and
\* clear, and the mask of an existing queue is its buffer length minus one.
C12_Pow2Construction ==
  /\ pow2 # {} <=> \E k \in 0..(UsizeBits - 1) : capacity(queue) = TwoTo(k)
  /\ pow2 # {} => /\ ArrLen(P2.buf) = capacity(queue)
                   /\ P2.mask = ArrLen(P2.buf) - 1

\* Construction over a zero-length buffer: the modulo queue exists, the
\* power-of-two constructor has panicked.
C12_Witness ==
  /\ last.op = "new" /\ capacity(queue) = 0 /\ pow2 = {}

\* C13: used on their own over the same indices, the packed backing and
\* the byte-per-bit backing have the same capacity (word count * WordBits)
\* and answer contains alike for every index; after insert(i) contains(i)
\* is true, after remove(i) it is false, contains(j) for every j # i is as
\* before the call, inserting or removing once more changes nothing, and
\* after clear_all contains is false for every index.
C13_PackedBacking ==
  LET p  == membership.packed
      p0 == membership.packed0
      i  == membership.index
      All == 0..(u64_capacity(p) - 1)
      Others == \A j \in All \ {i} : u64_contains(p, j) = u64_contains(p0, j)
  IN  /\ u64_capacity(p) = Words * WordBits
      /\ u64_capacity(p) = bool_capacity(membership.bytes)
      /\ \A j \in All : u64_contains(p, j) = bool_contains(membership.bytes, j)
      /\ membership.op = "insert" =>
           u64_contains(p, i) /\ Others /\ u64_insert(p, i) = p
      /\ membership.op = "remove" =>
           ~u64_contains(p, i) /\ Others /\ u64_remove(p, i) = p
      /\ membership.op = "clear_all" => \A j \in All : ~u64_contains(p, j)

\* remove(64) with 63 and 64 both set before: 63, the last bit of word 0,
\* stays set, and 64, the first bit of word 1, is gone.
C13_Witness ==
  /\ membership.op = "remove" /\ membership.index = WordBits
  /\ u64_contains(membership.packed0, WordBits)
  /\ u64_contains(membership.packed0, WordBits - 1)
  /\ u64_contains(membership.packed, WordBits - 1)
  /\ ~u64_contains(membership.packed, WordBits)

C14For(q, o) ==
  /\ last.op = "new" =>
       /\ q.head = 0 /\ q.tail = 0 /\ q.len = 0
       /\ is_empty(q)
       /\ IF last.clear_on_new THEN NoBitSet(q.in_queue)
          ELSE q.in_queue = Backing(q.in_queue.kind, last.arg)
  /\ (/\ o.after \in {"wiped", "first"} /\ last.op = "push"
      /\ capacity(q) > 0 /\ \A v \in last.arg : InRange(q, v))
       => o.res = Inserted
  /\ o.after = "kept" => o.res = AlreadyPresent

\* C14: a constructor built with clear_on_new leaves no membership bit set,
\* whatever the backing held, and one built without it leaves the backing
\* as given; either way head, tail and len are 0 and the queue is empty.
\* The first push after a clearing constructor returns Inserted for every
\* in-range value when capacity() > 0; a push right after a non-clearing
\* constructor of a value whose bit was given set returns AlreadyPresent.
C14_Construction ==
  /\ C14For(queue, obs)
  /\ pow2 # {} => C14For(P2, O2)

\* The supplied backing had the bit of the pushed value set, the
\* constructor cleared it, and the push was accepted.
C14_Witness ==
  /\ obs.after = "wiped" /\ obs.res = Inserted
  /\ pow2 # {} /\ O2.after = "wiped" /\ O2.res = Inserted

C15Retry(q, o) == o.after = "retry" => o.res = Inserted

\* C15 as stated: for every capacity, the push retried after one pop() is
\* accepted.
C15_Original ==
  /\ C15Retry(queue, obs)
  /\ pow2 # {} => C15Retry(P2, O2)

\* C15: on a queue with capacity() > 0, when push(v) of an in-range
\* non-member v has returned Err(v) because the queue was full, push(v)
\* called again right after one pop() returns Inserted, in both modes and
\* both orders and in both variants.
C15_Backpressure ==
  /\ capacity(queue) > 0 => C15Retry(queue, obs)
  /\ pow2 # {} => C15Retry(P2, O2)

C15_Witness ==
  /\ obs.after = "retry" /\ obs.res = Inserted /\ capacity(queue) = 2
  /\ queue.mode = "Visited"
  /\ pow2 # {} /\ O2.after = "retry" /\ O2.res = Inserted

\* The len slots of the ring buffer from the logical head on, oldest first.
Live(q) == [i \in 1..q.len |-> q.buf[(q.head + i - 1) % ArrLen(q.buf)]]

C16For(q, o) ==
  LET s == Live(q) IN
  /\ \A i, j \in 1..q.len : i # j => index_of(s[i]) # index_of(s[j])
  /\ s = o.pending
  /\ (last.op = "pop" /\ o.res.tag = "Some") =>
       \A v \in o.res.val : ~InSeq(v, s)

\* C16: in every reachable state of either variant, in both modes and
\* orders, the len slots from the logical head on hold pairwise distinct
\* values, and they are exactly the values whose push returned Inserted and
\* that pop has not returned since; a value that pop has just returned is
\* in none of them, so pop cannot return it again before a new Inserted.
C16_NoDuplicates ==
  /\ C16For(queue, obs)
  /\ pow2 # {} => C16For(P2, O2)

\* A full two-slot queue whose live slots wrap around the end.
C16_Witness ==
  /\ last.op = "push" /\ obs.res = Inserted
  /\ queue.len = 2 /\ queue.head = 1 /\ queue.tail = 1
  /\ pow2 # {} /\ P2.len = 2 /\ P2.head = 1

\* The indices whose bit is set in the backing's storage.
SetBits(s) ==
  IF s.kind = "bool" THEN {i \in DOMAIN s.data : s.data[i]}
  ELSE UNION {{w * WordBits + b : b \in s.data[w]} : w \in DOMAIN s.data}

Indices(vals) == {index_of(v) : v \in vals}

C17For(q, o) ==
  LET pend == {index_of(o.pending[i]) : i \in 1..Len(o.pending)}
      bits == SetBits(q.in_queue)
  IN  o.clean =>
        /\ \A v \in Values(q.in_queue.kind) :
             InRange(q, v) =>
               (contains(q.in_queue, index_of(v)) <=> index_of(v) \in bits)
        /\ q.mode = "InQueue" =>
             /\ bits = pend
             /\ Cardinality(bits) = len(q)
        /\ q.mode = "Visited" =>
             /\ bits = Indices(o.inserted)
             /\ pend \subseteq bits

\* C17: once no stale membership bit is left (none was set right after
\* construction, or clear() has been called), in every reachable state of
\* either variant: in InQueue mode the set bits are exactly the indices of
\* the pending values and their number is len(); in Visited mode the set
\* bits are exactly the indices of the values whose push returned Inserted
\* since construction or the last clear(), and the pending values' indices
\* are among them.
C17_Membership ==
  /\ C17For(queue, obs)
  /\ pow2 # {} => C17For(P2, O2)

\* Visited mode, a packed backing: one value is pending and another has
\* been popped, and the bits of both are set.
C17_Witness ==
  /\ queue.mode = "Visited" /\ queue.in_queue.kind = "u64" /\ obs.clean
  /\ Len(obs.pending) = 1 /\ Cardinality(obs.popped) = 1
  /\ Cardinality(SetBits(queue.in_queue)) = 2
  /\ pow2 # {} /\ Cardinality(SetBits(P2.in_queue)) = 2

C18For(q, o) ==
  /\ capacity(q) > 0 =>
       /\ 0 <= q.len /\ q.len <= capacity(q)
       /\ 0 <= q.head /\ q.head < capacity(q)
       /\ 0 <= q.tail /\ q.tail < capacity(q)
       /\ q.tail = (q.head + q.len) % capacity(q)
       /\ q.order = "Lifo" => q.head = 0
  /\ len(q) = Len(o.pending)

\* C18: in every reachable state of a queue of either variant with
\* capacity > 0, 0 <= len <= capacity, head and tail are below capacity,
\* tail = (head + len) mod capacity, and in Lifo order head is 0; len() is
\* the number of pushes that returned Inserted less the number of pops that
\* returned a value since construction or the last clear().
C18_RingIndex ==
  /\ C18For(queue, obs)
  /\ pow2 # {} => C18For(P2, O2)

\* A Fifo pop that has moved head to the last slot while tail has wrapped
\* to 0.
C18_Witness ==
  /\ last.op = "pop" /\ obs.res.tag = "Some" /\ capacity(queue) = 2
  /\ queue.head = 1 /\ queue.tail = 0 /\ queue.len = 1
  /\ pow2 # {} /\ P2.head = 1 /\ P2.tail = 0 /\ P2.len = 1

C19Empty(o) == (last.op = "pop" /\ o.len0 = 0) => (o.res = None /\ o.same)

\* C19: in every reachable state, for every buffer length (0 included for
\* the modulo queue, 1 for the power-of-two queue), mode, order and
\* backing, no push of any value and no pop would index the buffer or the
\* membership backing outside its storage, take a remainder by zero or
\* decrement len at 0; and a pop called on an empty queue has returned
\* None and left the queue as it was.
C19_NoFault ==
  /\ \A v \in Values(queue.in_queue.kind) : ~push_faults(queue, v)
  /\ ~pop_faults(queue)
  /\ C19Empty(obs)
  /\ pow2 # {} =>
       /\ \A v \in Values(P2.in_queue.kind) : ~p2_push_faults(P2, v)
       /\ ~p2_pop_faults(P2)
       /\ C19Empty(O2)

\* A pop on a one-slot queue that had been used and drained before.
C19_Witness ==
  /\ last.op = "pop" /\ capacity(queue) = 1 /\ queue.mode = "Visited"
  /\ obs.len0 = 0 /\ obs.res = None /\ obs.same /\ obs.popped # {}
  /\ pow2 # {} /\ O2.len0 = 0 /\ O2.res = None /\ O2.same

C20Counts(q, o) ==
  q.mode = "Visited" =>
    /\ o.ninserted = Cardinality(o.inserted)
    /\ o.npopped = Cardinality(o.popped)
    /\ o.popped \subseteq o.inserted
    /\ o.ninserted <= capacity_of(q.in_queue)
    /\ o.npopped <= capacity_of(q.in_queue)

\* C20: in a run without clear() of a Visited queue of either variant that
\* was constructed with no membership bit set, the number of Inserted
\* results equals the number of distinct values inserted and the number of
\* values popped equals the number of distinct values popped (no value is
\* inserted or popped twice), both are at most the capacity of the
\* membership backing, and a work-list loop that pops until pop() returns
\* None, pushing finitely many values per pop, gets to the pop that
\* returns None.
C20_VisitOnce ==
  /\ [](C20Counts(queue, obs) /\ (pow2 # {} => C20Counts(P2, O2)))
  /\ <>Exited

\* The loop has ended after as many successful pops as the byte-per-bit
\* backing has indices: every index has been visited.
C20_Witness ==
  /\ Exited /\ queue.in_queue.kind = "bool"
  /\ obs.npopped = capacity_of(queue.in_queue)
  /\ obs.ninserted = capacity_of(queue.in_queue)
  /\ pow2 # {} /\ O2.npopped = capacity_of(P2.in_queue)

\* C21: for every power-of-two length L >= 1 with mask L - 1 and every
\* index i below L, (i + 1) & mask is (i + 1) mod L, and wrapping_sub(i, 1)
\* & mask is the modulo queue's decrement: L - 1 for i = 0, else i - 1.
C21_MaskIsModulo ==
  LET L == ring.length
      i == ring.index0
  IN  /\ L >= 1 /\ (\E k \in 0..MaxLog : L = TwoTo(k))
      /\ ring.mask = L - 1
      /\ 0 <= i /\ i < L
      /\ ring.index = ring.by_mod
      /\ ring.op = "advance" => ring.index = (i + 1) % L
      /\ ring.op = "retreat" =>
           ring.index = (IF i = 0 THEN L - 1 ELSE i - 1)

\* The decrement at index 0 of the longest ring: the subtraction has
\* wrapped to 2^w - 1 and the mask has brought it to L - 1.
C21_Witness ==
  /\ ring.op = "retreat" /\ ring.length = TwoTo(MaxLog) /\ ring.index0 = 0
  /\ ring.index = ring.length - 1 /\ ring.by_mod = ring.length - 1
  /\ wrapping_sub(ring.index0, 1) = TwoTo(UsizeBits) - 1

====
